---- MODULE Spec2Model ----
(***************************************************************************)
(* Model of tagesschauscraper/tagesschau.py: the archive teaser pipeline   *)
(* (TagesschauScraper, Teaser), the article tag extractor (Article), the   *)
(* sqlite store (TagesschauDB) and the markdown converter                  *)
(* (TagesschauArticle).                                                    *)
(*                                                                         *)
(* Text is modelled as a sequence of tokens (strings), a python dict as a  *)
(* function whose DOMAIN is the set of its keys.                           *)
(***************************************************************************)
EXTENDS Integers, Sequences, FiniteSets, TLC

VARIABLES
    \* ---- TagesschauScraper._extract_info_for_all_teaser ----
    soup,                   \* the teaser blocks found on the archive page
    idx,                    \* position of the for loop over the blocks
    pc,                     \* position inside the loop body
    teaser_info,            \* Teaser.teaser_info of the current teaser
    extracted_teaser_list,  \* the list being built
    result,                 \* the returned dict's "teaser" entry
    raised,                 \* exception that left _extract_info_for_all_teaser
    kept,                   \* history: indices of the blocks appended
    fetched,                \* history: the article fetches, failed or not
    \* ---- Article.extract_article_tags ----
    article_soup,           \* the article DOM handed to Article
    tags_pc,
    article_tags,           \* the returned dict
    \* ---- TagesschauDB ----
    table_exists,           \* the table Tagesschau exists in news.db
    rows,                   \* its rows, in insertion order
    db_error,               \* exception raised by the last insert
    attempts,               \* history: the calls of insert
    \* ---- TagesschauArticle ----
    dom,                    \* history: the article DOM as fetched
    md_soup,                \* self.soup
    tags_to_remove,         \* self.tags_to_remove
    md_pc,                  \* position inside get_markdown_content
    elements,               \* the result of self.soup.find_all()
    md_i,                   \* position of the for loop over elements
    markdown_content,       \* the document built so far
    md_raised,              \* exception that left get_markdown_content
    fragments               \* history: what each element contributed

pipeVars == <<soup, idx, pc, teaser_info, extracted_teaser_list, result,
              raised, kept, fetched>>
tagVars == <<article_soup, tags_pc, article_tags>>
dbVars == <<table_exists, rows, db_error, attempts>>
mdVars == <<dom, md_soup, tags_to_remove, md_pc, elements, md_i,
            markdown_content, md_raised, fragments>>

----------------------------------------------------------------------------
(* Bounds                                                                  *)

MaxTeasers == 2
MaxTags == 3
MaxInserts == 3
MaxNodes == 3

----------------------------------------------------------------------------
(* python dicts                                                            *)

EmptyDict == [k \in {} |-> <<>>]

Put(d, k, v) == [x \in (DOMAIN d) \cup {k} |-> IF x = k THEN v ELSE d[x]]

Update(d, e) ==
    [x \in (DOMAIN d) \cup (DOMAIN e) |-> IF x \in DOMAIN e THEN e[x] ELSE d[x]]

Range(s) == {s[i] : i \in DOMAIN s}

----------------------------------------------------------------------------
(* Article.extract_article_tags                                            *)

\* Code point order of the characters that occur in tag texts.
CharCode(c) ==
    CASE c = " " -> 32
      [] c = "," -> 44
      [] c = "a" -> 97
      [] c = "b" -> 98

\* python's str <= str: lexicographic by code point.
RECURSIVE StrLeq(_, _)
StrLeq(s, t) ==
    IF s = <<>> THEN TRUE
    ELSE IF t = <<>> THEN FALSE
    ELSE IF CharCode(Head(s)) < CharCode(Head(t)) THEN TRUE
    ELSE IF CharCode(Head(s)) > CharCode(Head(t)) THEN FALSE
    ELSE StrLeq(Tail(s), Tail(t))

Whitespace == {" ", "\n"}

\* str.strip(): drop leading and trailing whitespace.
RECURSIVE LStrip(_)
LStrip(s) ==
    IF s /= <<>> /\ Head(s) \in Whitespace THEN LStrip(Tail(s)) ELSE s

RECURSIVE RStrip(_)
RStrip(s) ==
    IF s /= <<>> /\ s[Len(s)] \in Whitespace
    THEN RStrip(SubSeq(s, 1, Len(s) - 1))
    ELSE s

Strip(s) == RStrip(LStrip(s))

\* tag.get_text(strip=True) of a tag button holding one string.
TagButtonText(s) == Strip(s)

RECURSIVE InsertSorted(_, _)
InsertSorted(x, s) ==
    IF s = <<>> THEN <<x>>
    ELSE IF StrLeq(Head(s), x) THEN <<Head(s)>> \o InsertSorted(x, Tail(s))
    ELSE <<x>> \o s

\* The tags left in document order.
SortedNoSort(s) == s

\* sorted(tags): stable ascending sort.
RECURSIVE Sorted(_)
Sorted(s) ==
    IF s = <<>> THEN <<>> ELSE InsertSorted(s[Len(s)], Sorted(SubSeq(s, 1, Len(s) - 1)))

\* ",".join(list)
RECURSIVE JoinComma(_)
JoinComma(s) ==
    IF s = <<>> THEN <<>>
    ELSE IF Len(s) = 1 THEN s[1]
    ELSE s[1] \o <<",">> \o JoinComma(Tail(s))

\* An article DOM as Article sees it: whether find(class_="taglist") yields
\* a Tag, and the strings of the tag buttons inside it, in document order.
extract_article_tags(article) ==
    LET tags == IF article.taglist
                THEN [i \in 1..Len(article.buttons) |->
                          TagButtonText(article.buttons[i])]
                ELSE <<>>
    IN  [tags |-> JoinComma(Sorted(tags))]

----------------------------------------------------------------------------
(* Teaser                                                                  *)

field_names_text == <<"date", "topline", "headline", "shorttext">>
field_names_link == <<"link">>

required_attributes == {"date", "headline", "shorttext", "link"}

SiteOrigin == <<"https://", "www.", "tagesschau.de">>

\* The link elements a teaser block can hold: none, one without href, one
\* with a relative href, one with an absolute href.
LinkTags ==
    { [found |-> FALSE, has_href |-> FALSE, href |-> <<>>],
      [found |-> TRUE, has_href |-> FALSE, href |-> <<>>],
      [found |-> TRUE, has_href |-> TRUE, href |-> <<"/inland/a.html">>],
      [found |-> TRUE, has_href |-> TRUE,
       href |-> SiteOrigin \o <<"/ausland/b.html">>] }

\* A teaser block: for each text field whether find(class_=teaser-right__f)
\* yields a Tag, and the link element.
Blocks ==
    [date : BOOLEAN, topline : BOOLEAN, headline : BOOLEAN,
     shorttext : BOOLEAN, link : LinkTags]

\* tag.get_text(strip=True, separator=" ") of the field's element.
FieldText(f) ==
    IF f = "date" THEN <<"05.11.2023", "-", "14:49", "Uhr">> ELSE <<f, "text">>

\* helper.get_hash_from_string
get_hash_from_string(s) == <<"sha256:">> \o s

\* helper.transform_datetime_str
transform_datetime_str(s) == <<s[1], s[3]>>

Returned(info) == [exc |-> "none", info |-> info]
Raise(e, info) == [exc |-> e, info |-> info]

\* not "www." in href
NoWww(href) == \A i \in 1..Len(href) : href[i] /= "www."

ResolveLink(href) == IF NoWww(href) THEN SiteOrigin \o href ELSE href

\* Teaser.extract_info_from_teaser on a fresh Teaser (teaser_info empty).
\* The link is the last field of the loop, so a missing href raises after
\* the text fields have been stored.
extract_info_from_teaser(block) ==
    LET texts == [f \in {g \in Range(field_names_text) : block[g]} |->
                      FieldText(f)]
    IN  IF ~block.link.found THEN Returned(texts)
        ELSE IF block.link.has_href
             THEN Returned(Put(texts, "link", ResolveLink(block.link.href)))
             ELSE Raise("ValueError", texts)

\* The outcomes of retrieve.get_soup_from_url(article_link) followed by
\* Article(...).extract_article_tags(): success, or one of the exceptions
\* the except clauses name (the last clause is BaseException).
FetchErrors ==
    {"TooManyRedirects", "gaierror", "ConnectionError", "BaseException"}

\* The article DOMs a fetch returns in the teaser pipeline.
Articles ==
    { [taglist |-> FALSE, buttons |-> <<>>],
      [taglist |-> TRUE, buttons |-> << <<"b">>, <<" ", "a">> >>] }

\* The except clauses without a handler that covers gaierror.
CaughtNoGaierror(e) == e \in FetchErrors \ {"gaierror"}

\* The exception is handled by one of the except clauses.
Caught(e) == e \in FetchErrors

\* Teaser.enrich_teaser_info_with_article_tags; outcome is "ok" or the
\* exception raised inside the try block.  teaser_info and self.teaser_info
\* are the same dict, so one value stands for both.
enrich_teaser_info_with_article_tags(info, outcome, article) ==
    IF "link" \notin DOMAIN info THEN Raise("KeyError", info)
    ELSE IF outcome = "ok"
         THEN Returned(Update(info, extract_article_tags(article)))
    ELSE IF Caught(outcome) THEN Returned(info)
    ELSE Raise(outcome, info)

\* Teaser.process_info
process_info(info) ==
    LET with_id == Put(info, "id", get_hash_from_string(info["link"]))
    IN  IF "date" \notin DOMAIN info THEN Raise("KeyError", with_id)
        ELSE Returned(Put(with_id, "date", transform_datetime_str(info["date"])))

\* The validity test that does not ask for shorttext.
is_teaser_info_valid_no_shorttext(info) ==
    (required_attributes \ {"shorttext"}) \ (DOMAIN info) = {}

\* Teaser.is_teaser_info_valid
is_teaser_info_valid(info) == required_attributes \ (DOMAIN info) = {}

----------------------------------------------------------------------------
(* TagesschauScraper._extract_info_for_all_teaser, one action per step of  *)
(* the loop body                                                           *)

Pages == UNION {[1..n -> Blocks] : n \in 0..MaxTeasers}

InitPipe ==
    /\ soup \in Pages
    /\ idx = 1
    /\ pc = "loop"
    /\ teaser_info = EmptyDict
    /\ extracted_teaser_list = <<>>
    /\ result = <<>>
    /\ raised = "none"
    /\ kept = <<>>
    /\ fetched = <<>>

\* for teaser in soup.find_all(...): teaserObj = Teaser(soup=teaser)
NewTeaser ==
    /\ pc = "loop"
    /\ idx <= Len(soup)
    /\ teaser_info' = EmptyDict
    /\ pc' = "extract"
    /\ UNCHANGED <<soup, idx, extracted_teaser_list, result, raised, kept,
                   fetched>>

Step(r, next) ==
    /\ teaser_info' = r.info
    /\ IF r.exc = "none"
       THEN pc' = next /\ raised' = raised
       ELSE pc' = "raised" /\ raised' = r.exc

ExtractInfoFromTeaser ==
    /\ pc = "extract"
    /\ Step(extract_info_from_teaser(soup[idx]), "enrich")
    /\ UNCHANGED <<soup, idx, extracted_teaser_list, result, kept, fetched>>

EnrichTeaserInfo ==
    /\ pc = "enrich"
    /\ \E outcome \in {"ok"} \cup FetchErrors, article \in Articles :
          /\ outcome /= "ok" => article = [taglist |-> FALSE, buttons |-> <<>>]
          /\ Step(enrich_teaser_info_with_article_tags(teaser_info, outcome,
                                                       article), "process")
          /\ fetched' = IF "link" \in DOMAIN teaser_info
                        THEN Append(fetched, [block |-> idx, ok |-> outcome = "ok"])
                        ELSE fetched
    /\ UNCHANGED <<soup, idx, extracted_teaser_list, result, kept>>

ProcessInfo ==
    /\ pc = "process"
    /\ Step(process_info(teaser_info), "validate")
    /\ UNCHANGED <<soup, idx, extracted_teaser_list, result, kept, fetched>>

AppendTeaser(list, info) == Append(list, info)

\* if teaserObj.is_teaser_info_valid(...): extracted_teaser_list.append(...)
ValidateTeaser ==
    /\ pc = "validate"
    /\ IF is_teaser_info_valid(teaser_info)
       THEN /\ extracted_teaser_list' =
                   AppendTeaser(extracted_teaser_list, teaser_info)
            /\ kept' = Append(kept, idx)
       ELSE UNCHANGED <<extracted_teaser_list, kept>>
    /\ idx' = idx + 1
    /\ pc' = "loop"
    /\ UNCHANGED <<soup, teaser_info, result, raised, fetched>>

\* return {"teaser": extracted_teaser_list}
ReturnTeaser ==
    /\ pc = "loop"
    /\ idx > Len(soup)
    /\ result' = extracted_teaser_list
    /\ pc' = "returned"
    /\ UNCHANGED <<soup, idx, teaser_info, extracted_teaser_list, raised, kept,
                   fetched>>

IdlePipe ==
    /\ soup = <<>>
    /\ idx = 1
    /\ pc = "idle"
    /\ teaser_info = EmptyDict
    /\ extracted_teaser_list = <<>>
    /\ result = <<>>
    /\ raised = "none"
    /\ kept = <<>>
    /\ fetched = <<>>

----------------------------------------------------------------------------
(* Article: one call of extract_article_tags on an article DOM             *)

\* The strings a tag button can hold (before get_text strips them).
RawTagTexts ==
    { <<>>, <<"a">>, <<"b">>, <<"a", "b">>, <<" ", "a">>, <<"b", " ">> }

ArticleSoups ==
    { [taglist |-> FALSE, buttons |-> <<>>] } \cup
    { [taglist |-> TRUE, buttons |-> b] :
          b \in UNION {[1..n -> RawTagTexts] : n \in 0..MaxTags} }

InitTags ==
    /\ article_soup \in ArticleSoups
    /\ tags_pc = "start"
    /\ article_tags = EmptyDict

IdleTags ==
    /\ article_soup = [taglist |-> FALSE, buttons |-> <<>>]
    /\ tags_pc = "idle"
    /\ article_tags = EmptyDict

ExtractArticleTags ==
    /\ tags_pc = "start"
    /\ article_tags' = extract_article_tags(article_soup)
    /\ tags_pc' = "done"
    /\ UNCHANGED article_soup

----------------------------------------------------------------------------
(* TagesschauDB                                                            *)

\* The names the insert statement binds, in column order.
InsertBindings ==
    <<"id", "date", "topline", "headline", "shorttext", "link", "tags">>

\* The row INSERT ... VALUES (:id, :date, ...) builds from content.
RowOf(content) ==
    [id |-> content["id"], timestamp |-> content["date"],
     topline |-> content["topline"], headline |-> content["headline"],
     shorttext |-> content["shorttext"], link |-> content["link"],
     tags |-> content["tags"]]

HasId(tbl, id) == \E i \in 1..Len(tbl) : tbl[i].id = id

\* INSERT OR REPLACE: the conflicting row is deleted, the new one added.
OrReplace(tbl, row) ==
    Append(SelectSeq(tbl, LAMBDA r : r.id /= row.id), row)

\* INSERT OR IGNORE under the UNIQUE constraint on id (create_table).
OrIgnore(tbl, row) == IF HasId(tbl, row.id) THEN tbl ELSE Append(tbl, row)

\* TagesschauDB.insert: sqlite prepares the statement (the table must
\* exist), binds the named parameters from the dict (each must be a key),
\* then runs it; "with self.conn" commits, or rolls back on an exception.
insert(exists, tbl, content) ==
    IF ~exists THEN [error |-> "OperationalError", rows |-> tbl]
    ELSE IF Range(InsertBindings) \ (DOMAIN content) /= {}
         THEN [error |-> "ProgrammingError", rows |-> tbl]
    ELSE [error |-> "none", rows |-> OrIgnore(tbl, RowOf(content))]

\* One teaser through the four stages.
RunTeaser(block, outcome, article) ==
    LET e == extract_info_from_teaser(block)
        n == enrich_teaser_info_with_article_tags(e.info, outcome, article)
    IN  IF e.exc /= "none" THEN e
        ELSE IF n.exc /= "none" THEN n
        ELSE process_info(n.info)

\* The records _extract_info_for_all_teaser can append to its result.
ScrapedRecords ==
    { RunTeaser(b, o, a).info :
          <<b, o, a>> \in
              { t \in Blocks \X ({"ok"} \cup FetchErrors) \X Articles :
                    LET r == RunTeaser(t[1], t[2], t[3])
                    IN  r.exc = "none" /\ is_teaser_info_valid(r.info) } }

InitDB ==
    /\ table_exists = FALSE
    /\ rows = <<>>
    /\ db_error = "none"
    /\ attempts = <<>>

\* TagesschauDB.create_table: CREATE TABLE IF NOT EXISTS
CreateTable ==
    /\ table_exists' = TRUE
    /\ UNCHANGED <<rows, db_error, attempts>>

Insert ==
    /\ Len(attempts) < MaxInserts
    /\ \E content \in ScrapedRecords :
          LET r == insert(table_exists, rows, content)
          IN  /\ rows' = r.rows
              /\ db_error' = r.error
              /\ attempts' = Append(attempts, [content |-> content,
                                               table |-> table_exists])
    /\ UNCHANGED table_exists

----------------------------------------------------------------------------
(* TagesschauArticle: the DOM                                              *)

\* A DOM is the sequence of its nodes in document order, each with its
\* depth: the nodes below node i are those that follow it with a greater
\* depth, up to the next node that is not deeper.  A node is a Tag (name,
\* class list) or a NavigableString (string).
TagNode(name, class, depth) ==
    [kind |-> "tag", name |-> name, class |-> class, string |-> <<>>,
     depth |-> depth]

StringNode(string, depth) ==
    [kind |-> "text", name |-> "", class |-> <<>>, string |-> string,
     depth |-> depth]

\* The elements of the generated documents: name and class list.
ElementKinds ==
    { <<"div", <<>>>>, <<"nav", <<>>>>, <<"header", <<>>>>,
      <<"footer", <<>>>>, <<"aside", <<>>>>, <<"p", <<"textabsatz">>>>,
      <<"strong", <<>>>>, <<"h1", <<>>>>, <<"h2", <<>>>>, <<"span", <<>>>> }

\* The strings of the generated documents: the i-th node, when a string,
\* holds the character i, alone or with whitespace and a line break.
StringsAt(i) ==
    { <<ToString(i)>>, <<" ", ToString(i), "\n", ToString(i), "\n">> }

\* The depths the node after the last one of d may have.
NextDepths(d) ==
    IF d = <<>> THEN {0}
    ELSE IF d[Len(d)].kind = "tag" THEN 0..(d[Len(d)].depth + 1)
    ELSE 0..d[Len(d)].depth

\* The documents that are d and one more node.
Extensions(d) ==
    { Append(d, TagNode(e[1], e[2], k)) :
          e \in ElementKinds, k \in NextDepths(d) }
    \cup
    { Append(d, StringNode(x, k)) :
          x \in StringsAt(Len(d) + 1), k \in NextDepths(d) }

RECURSIVE DomsOfSize(_)
DomsOfSize(n) ==
    IF n = 0 THEN {<<>>} ELSE UNION {Extensions(d) : d \in DomsOfSize(n - 1)}

\* The documents of fewer than MaxNodes nodes.
SmallerDoms == UNION {DomsOfSize(n) : n \in 0..(MaxNodes - 1)}

Min(S) == CHOOSE x \in S : \A y \in S : x <= y

\* The last node of the subtree rooted at node i.
SubtreeEnd(doc, i) ==
    LET later == {j \in (i + 1)..Len(doc) : doc[j].depth <= doc[i].depth}
    IN  IF later = {} THEN Len(doc) ELSE Min(later) - 1

Indices(doc) == [k \in 1..Len(doc) |-> k]

\* The nodes of doc at the positions in kept, in document order.
Filtered(doc, kept_positions) ==
    LET keep == SelectSeq(Indices(doc), LAMBDA k : k \in kept_positions)
    IN  [j \in 1..Len(keep) |-> doc[keep[j]]]

\* element.find_all(name) below node i (i = 0: the whole document): the
\* Tags of that name, in document order.
find_all_name(doc, i, name) ==
    LET last == IF i = 0 THEN Len(doc) ELSE SubtreeEnd(doc, i)
    IN  SelectSeq(Indices(doc),
                  LAMBDA k : /\ i < k /\ k <= last
                             /\ doc[k].kind = "tag" /\ doc[k].name = name)

\* soup.find_all(): every Tag of the document, in document order; a
\* NavigableString is never part of the result.
find_all(doc) ==
    SelectSeq(Indices(doc), LAMBDA k : doc[k].kind = "tag")

\* The removal that takes out the matching elements alone and leaves their
\* children in the document.
RemoveTagUnwrap(doc, tag) ==
    Filtered(doc, {k \in 1..Len(doc) :
                       ~(doc[k].kind = "tag" /\ doc[k].name = tag)})

\* for element in self.soup.find_all(tag): element.decompose()
RemoveTag(doc, tag) ==
    LET found == find_all_name(doc, 0, tag)
        doomed == UNION {found[j]..SubtreeEnd(doc, found[j]) :
                             j \in 1..Len(found)}
    IN  Filtered(doc, (1..Len(doc)) \ doomed)

\* TagesschauArticle.remove_elements
RECURSIVE remove_elements(_, _)
remove_elements(doc, tags) ==
    IF tags = <<>> THEN doc
    ELSE remove_elements(RemoveTag(doc, Head(tags)), Tail(tags))

\* element.get_text(): the strings of the subtree of node i, concatenated;
\* with strip=True each string is stripped and left out when empty.
RECURSIVE TextFrom(_, _, _, _)
TextFrom(doc, k, last, strip) ==
    IF k > last THEN <<>>
    ELSE (IF doc[k].kind = "text"
          THEN (IF strip THEN Strip(doc[k].string) ELSE doc[k].string)
          ELSE <<>>) \o TextFrom(doc, k + 1, last, strip)

get_text(doc, i, strip) == TextFrom(doc, i, SubtreeEnd(doc, i), strip)

\* str.replace("\n", " ")
ReplaceNewlines(s) == [k \in 1..Len(s) |-> IF s[k] = "\n" THEN " " ELSE s[k]]

Converted(md) == [exc |-> "none", md |-> md]

\* convert_to_markdown, the branch for element.name == 'h1'.
ConvertH1(doc, i) ==
    LET span_elements == find_all_name(doc, i, "span")
    IN  IF Len(span_elements) /= 0
        THEN IF Len(span_elements) < 2
             THEN [exc |-> "IndexError", md |-> <<>>]
             ELSE Converted(
                      <<"#", " ">>
                      \o ReplaceNewlines(get_text(doc, span_elements[1], TRUE))
                      \o <<" ", "-", " ">>
                      \o ReplaceNewlines(get_text(doc, span_elements[2], TRUE)))
        ELSE Converted(<<"#", " ">> \o ReplaceNewlines(get_text(doc, i, FALSE))
                       \o <<"\n", "\n">>)

\* TagesschauArticle.convert_to_markdown on node i of doc.
convert_to_markdown(doc, i) ==
    IF doc[i].kind = "text" THEN Converted(doc[i].string)
    ELSE IF "textabsatz" \in Range(doc[i].class)
         THEN LET strong == find_all_name(doc, i, "strong")
              IN  IF strong /= <<>>
                  THEN Converted(<<" ", "*", "*">>
                                 \o get_text(doc, strong[1], FALSE)
                                 \o <<"*", "*", " ">>)
                  ELSE Converted(get_text(doc, i, FALSE))
    ELSE IF doc[i].name = "h1" THEN ConvertH1(doc, i)
    ELSE IF doc[i].name = "h2"
         THEN Converted(<<"\n", "\n", "#", "#", " ">>
                        \o ReplaceNewlines(get_text(doc, i, FALSE))
                        \o <<"\n", "\n">>)
    ELSE Converted(<<>>)

----------------------------------------------------------------------------
(* TagesschauArticle.get_markdown_content, one action per step             *)

\* The default of the parameter tags_to_remove of __init__.
DefaultTagsToRemove == <<"header", "footer", "aside">>

\* The state after __init__ has fetched the article: get_markdown_content
\* is about to run.
InitMarkdown ==
    /\ \E d \in SmallerDoms : dom \in {d} \cup Extensions(d)
    /\ md_soup = dom
    /\ tags_to_remove \in {DefaultTagsToRemove, <<"nav">>}
    /\ md_pc = "remove"
    /\ elements = <<>>
    /\ md_i = 1
    /\ markdown_content = <<>>
    /\ md_raised = "none"
    /\ fragments = <<>>

IdleMarkdown ==
    /\ dom = <<>>
    /\ md_soup = <<>>
    /\ tags_to_remove = DefaultTagsToRemove
    /\ md_pc = "idle"
    /\ elements = <<>>
    /\ md_i = 1
    /\ markdown_content = <<>>
    /\ md_raised = "none"
    /\ fragments = <<>>

\* self.remove_elements()
RemoveElements ==
    /\ md_pc = "remove"
    /\ md_soup' = remove_elements(md_soup, tags_to_remove)
    /\ md_pc' = "find"
    /\ UNCHANGED <<dom, tags_to_remove, elements, md_i, markdown_content,
                   md_raised, fragments>>

\* elements = self.soup.find_all()
FindAll ==
    /\ md_pc = "find"
    /\ elements' = find_all(md_soup)
    /\ md_pc' = "convert"
    /\ UNCHANGED <<dom, md_soup, tags_to_remove, md_i, markdown_content,
                   md_raised, fragments>>

\* markdown_content += self.convert_to_markdown(element)
ConvertElement ==
    /\ md_pc = "convert"
    /\ md_i <= Len(elements)
    /\ LET r == convert_to_markdown(md_soup, elements[md_i])
       IN  IF r.exc = "none"
           THEN /\ markdown_content' = markdown_content \o r.md
                /\ fragments' = Append(fragments, r.md)
                /\ md_i' = md_i + 1
                /\ UNCHANGED <<md_pc, md_raised>>
           ELSE /\ md_pc' = "raised"
                /\ md_raised' = r.exc
                /\ UNCHANGED <<markdown_content, fragments, md_i>>
    /\ UNCHANGED <<dom, md_soup, tags_to_remove, elements>>

\* return markdown_content
ReturnMarkdown ==
    /\ md_pc = "convert"
    /\ md_i > Len(elements)
    /\ md_pc' = "done"
    /\ UNCHANGED <<dom, md_soup, tags_to_remove, elements, md_i,
                   markdown_content, md_raised, fragments>>

----------------------------------------------------------------------------
vars == <<pipeVars, tagVars, dbVars, mdVars>>

\* The teaser pipeline on one archive page.
Init == InitPipe /\ IdleTags /\ InitDB /\ IdleMarkdown

Next ==
    \/ NewTeaser /\ UNCHANGED <<tagVars, dbVars, mdVars>>
    \/ ExtractInfoFromTeaser /\ UNCHANGED <<tagVars, dbVars, mdVars>>
    \/ EnrichTeaserInfo /\ UNCHANGED <<tagVars, dbVars, mdVars>>
    \/ ProcessInfo /\ UNCHANGED <<tagVars, dbVars, mdVars>>
    \/ ValidateTeaser /\ UNCHANGED <<tagVars, dbVars, mdVars>>
    \/ ReturnTeaser /\ UNCHANGED <<tagVars, dbVars, mdVars>>

Spec == Init /\ [][Next]_vars

\* The store, fed with scraped records.
InitStore == IdlePipe /\ IdleTags /\ InitDB /\ IdleMarkdown

NextStore ==
    \/ CreateTable /\ UNCHANGED <<pipeVars, tagVars, mdVars>>
    \/ Insert /\ UNCHANGED <<pipeVars, tagVars, mdVars>>

SpecStore == InitStore /\ [][NextStore]_vars

\* The tag extractor on one article.
InitArticle == IdlePipe /\ InitTags /\ InitDB /\ IdleMarkdown

NextArticle == ExtractArticleTags /\ UNCHANGED <<pipeVars, dbVars, mdVars>>

SpecArticle == InitArticle /\ [][NextArticle]_vars

\* The markdown converter on one article.
InitConvert == IdlePipe /\ IdleTags /\ InitDB /\ InitMarkdown

NextConvert ==
    \/ RemoveElements /\ UNCHANGED <<pipeVars, tagVars, dbVars>>
    \/ FindAll /\ UNCHANGED <<pipeVars, tagVars, dbVars>>
    \/ ConvertElement /\ UNCHANGED <<pipeVars, tagVars, dbVars>>
    \/ ReturnMarkdown /\ UNCHANGED <<pipeVars, tagVars, dbVars>>

SpecConvert == InitConvert /\ [][NextConvert]_vars

----------------------------------------------------------------------------
(* Properties of the teaser pipeline (Spec)                                *)

MalformedLink(b) == b.link.found /\ ~b.link.has_href

\* Some required field has no element in the block.
LacksRequiredElement(b) ==
    ~b.date \/ ~b.headline \/ ~b.shorttext \/ ~b.link.found

\* The block has an element for every required field, the link with href.
HasRequired(b) ==
    b.date /\ b.headline /\ b.shorttext /\ b.link.found /\ b.link.has_href

ValidIndices == SelectSeq(Indices(soup), LAMBDA i : HasRequired(soup[i]))

\* The record the block at position i of the page contributed.
RecordOf(i) ==
    extracted_teaser_list[CHOOSE p \in 1..Len(kept) : kept[p] = i]

\* C1: a teaser block whose link element has no href does not stop the
\* page-level extraction: the extraction never ends with the exception of
\* that block, and it returns the records of all other valid blocks.
C1_MalformedLinkConfined ==
    \A i \in 1..Len(soup) :
        MalformedLink(soup[i]) =>
            /\ ~(pc = "raised" /\ idx = i)
            /\ pc = "returned" => kept = ValidIndices

\* C2: a teaser block that lacks the element of a required field (and has
\* no malformed link) raises no error: the stages run to the validation
\* verdict, the teaser is left out and the loop goes on.
C2_InvalidTeaserDropped ==
    \A i \in 1..Len(soup) :
        (LacksRequiredElement(soup[i]) /\ ~MalformedLink(soup[i])) =>
            /\ ~(pc = "raised" /\ idx = i)
            /\ i < idx => i \notin Range(kept)

\* C3: a failed article fetch is caught inside the enrichment: no fetch
\* error leaves the extraction, the only exceptions that do are those of
\* the current block's own missing link, href or date; the teaser goes on
\* without tags and is output iff its required fields are present, and the
\* blocks after it are still extracted.
C3_FetchFailureConfined ==
    /\ raised \notin FetchErrors
    /\ pc = "raised" =>
          (MalformedLink(soup[idx]) \/ ~soup[idx].link.found \/ ~soup[idx].date)
    /\ \A k \in 1..Len(fetched) :
          LET i == fetched[k].block
          IN  ~fetched[k].ok =>
                  /\ (i = idx /\ pc \in {"process", "validate"}) =>
                         "tags" \notin DOMAIN teaser_info
                  /\ i < idx =>
                         /\ HasRequired(soup[i]) <=> i \in Range(kept)
                         /\ i \in Range(kept) =>
                                "tags" \notin DOMAIN RecordOf(i)
                  /\ pc = "returned" =>
                         \A j \in (i + 1)..Len(soup) :
                             HasRequired(soup[j]) => j \in Range(kept)

\* The first fetch failed, its teaser is output without tags and the block
\* after it is output too.
C3_Witness ==
    /\ pc = "returned"
    /\ fetched /= <<>> /\ ~fetched[1].ok /\ fetched[1].block = 1
    /\ kept = <<1, 2>>
    /\ "tags" \notin DOMAIN result[1]

\* C4: the returned sequence is the page-ordered subsequence of the blocks
\* that have all of date, headline, shorttext and link: one record each, in
\* page order, each with the link and the fields of its block; topline and
\* tags are not needed.
C4_ValidSubsequenceInPageOrder ==
    pc = "returned" =>
        /\ kept = ValidIndices
        /\ Len(result) = Len(kept)
        /\ \A p \in 1..Len(result) :
              LET b == soup[kept[p]]
              IN  /\ required_attributes \subseteq DOMAIN result[p]
                  /\ result[p]["link"] =
                         (IF "www." \in Range(b.link.href)
                          THEN b.link.href
                          ELSE SiteOrigin \o b.link.href)
                  /\ "topline" \in DOMAIN result[p] <=> b.topline

\* A page whose first block lacks only shorttext and whose second block is
\* valid without topline: exactly the second is returned.
C4_Witness ==
    /\ pc = "returned"
    /\ Len(soup) = 2
    /\ soup[1].date /\ soup[1].headline /\ soup[1].topline
    /\ ~soup[1].shorttext /\ soup[1].link.has_href
    /\ ~soup[2].topline
    /\ kept = <<2>>
    /\ Len(result) = 1
    /\ "tags" \notin DOMAIN result[1]

----------------------------------------------------------------------------
(* Properties of the store (SpecStore)                                     *)

Complete(content) == Range(InsertBindings) \subseteq DOMAIN content

\* The calls of insert that reached the table with every binding supplied.
Accepted == SelectSeq(attempts, LAMBDA a : a.table /\ Complete(a.content))

FirstAccepted(id) ==
    Accepted[Min({k \in 1..Len(Accepted) : Accepted[k].content["id"] = id})]

\* C5: the table holds at most one row per id, the row of an id is the one
\* of the first insert of that id, whatever later inserts of that id carry,
\* and a duplicate key raises nothing: an insert that supplies every
\* binding to the existing table ends without error.
C5_InsertOrIgnore ==
    /\ \A i, j \in 1..Len(rows) : rows[i].id = rows[j].id => i = j
    /\ {rows[i].id : i \in 1..Len(rows)} =
           {Accepted[k].content["id"] : k \in 1..Len(Accepted)}
    /\ \A i \in 1..Len(rows) :
           LET c == FirstAccepted(rows[i].id).content
           IN  /\ rows[i].timestamp = c["date"]
               /\ rows[i].topline = c["topline"]
               /\ rows[i].headline = c["headline"]
               /\ rows[i].shorttext = c["shorttext"]
               /\ rows[i].link = c["link"]
               /\ rows[i].tags = c["tags"]
    /\ db_error /= "IntegrityError"
    /\ (attempts /= <<>> /\ attempts[Len(attempts)].table
            /\ Complete(attempts[Len(attempts)].content)) => db_error = "none"

\* Two accepted inserts of one id with different fields, one row.
C5_Witness ==
    /\ Len(Accepted) >= 2
    /\ Accepted[1].content["id"] = Accepted[2].content["id"]
    /\ Accepted[1].content /= Accepted[2].content
    /\ Len(rows) = 1
    /\ db_error = "none"

\* C10: every record the page-level extraction outputs can be handed to
\* insert without error once the table exists.
C10_ScrapedRecordInsertable ==
    (attempts /= <<>> /\ attempts[Len(attempts)].table) => db_error = "none"

----------------------------------------------------------------------------
(* Properties of the tag extractor (SpecArticle)                           *)

\* s <= t in code point order, without recursion.
CodeLeq(s, t) ==
    \/ /\ Len(s) <= Len(t)
       /\ \A k \in 1..Len(s) : s[k] = t[k]
    \/ \E k \in 1..Len(s) :
          /\ k <= Len(t)
          /\ \A m \in 1..(k - 1) : s[m] = t[m]
          /\ CharCode(s[k]) < CharCode(t[k])

Permuted(s, p) == [i \in 1..Len(s) |-> s[p[i]]]

\* C9: without a tag-list container the tag string is empty; otherwise it
\* is the stripped texts of the tag buttons in ascending order joined with
\* ","; and every reordering of the buttons gives the same string.
C9_TagsSortedAndJoined ==
    tags_pc = "done" =>
        LET n == Len(article_soup.buttons)
            texts == [i \in 1..n |-> Strip(article_soup.buttons[i])]
        IN  /\ DOMAIN article_tags = {"tags"}
            /\ ~article_soup.taglist => article_tags["tags"] = <<>>
            /\ article_soup.taglist =>
                   \E p \in Permutations(1..n) :
                       /\ \A i \in 1..(n - 1) :
                              CodeLeq(Permuted(texts, p)[i],
                                      Permuted(texts, p)[i + 1])
                       /\ article_tags["tags"] = JoinComma(Permuted(texts, p))
            /\ \A p \in Permutations(1..n) :
                   extract_article_tags(
                       [article_soup EXCEPT
                            !.buttons = Permuted(article_soup.buttons, p)])
                   = article_tags

\* The buttons b and " a" give "a,b".
C9_Witness ==
    /\ tags_pc = "done"
    /\ article_soup.buttons = << <<"b">>, <<" ", "a">> >>
    /\ article_tags["tags"] = <<"a", ",", "b">>

----------------------------------------------------------------------------
(* Properties of the markdown converter (SpecConvert)                      *)

\* The h1 rule with the span form for two or more spans only.
H1TwoOrMoreSpans(doc, i) ==
    LET span_elements == find_all_name(doc, i, "span")
    IN  IF Len(span_elements) >= 2
        THEN Converted(<<"#", " ">>
                       \o ReplaceNewlines(get_text(doc, span_elements[1], TRUE))
                       \o <<" ", "-", " ">>
                       \o ReplaceNewlines(get_text(doc, span_elements[2], TRUE)))
        ELSE Converted(<<"#", " ">> \o ReplaceNewlines(get_text(doc, i, FALSE))
                       \o <<"\n", "\n">>)

\* C6: an h1 element converts without error: with two or more span
\* descendants to "# <first span> - <second span>", in every other case
\* (one span, no span) to "# <text>" followed by a blank line.
C6_HeadingConversion ==
    /\ md_raised /= "IndexError"
    /\ \A k \in 1..Len(fragments) :
          LET i == elements[k]
          IN  (md_soup[i].name = "h1"
                   /\ "textabsatz" \notin Range(md_soup[i].class)) =>
                  fragments[k] = H1TwoOrMoreSpans(md_soup, i).md

RECURSIVE RulesFrom(_, _)
RulesFrom(doc, k) ==
    IF k > Len(doc) THEN <<>>
    ELSE convert_to_markdown(doc, k).md \o RulesFrom(doc, k + 1)

\* C7: the document is the concatenation, in document order, of the rule
\* results of every node left after the removal, strings as well as
\* elements, a string contributing its content.
C7_EveryNodeVisited ==
    md_pc = "done" =>
        /\ Len(fragments) = Len(md_soup)
        /\ markdown_content = RulesFrom(md_soup, 1)

\* Node i of the fetched DOM lies in a subtree rooted at an element with
\* one of the names.
InsideAny(doc, i, names) ==
    \E j \in 1..i :
        /\ doc[j].kind = "tag"
        /\ doc[j].name \in names
        /\ i <= SubtreeEnd(doc, j)

\* The string of node i of the fetched DOM shows in the document.
Contributes(i) == ToString(i) \in Range(markdown_content)

NoneLeft(names) ==
    md_pc \in {"find", "convert", "done", "raised"} =>
        \A k \in 1..Len(md_soup) :
            ~(md_soup[k].kind = "tag" /\ md_soup[k].name \in names)

\* C8 as stated: the configured subtrees are gone before the traversal,
\* and under the default configuration nothing inside a header, nav or
\* aside subtree contributes text.
C8_DefaultCoversNavigation ==
    /\ NoneLeft(Range(tags_to_remove))
    /\ tags_to_remove = DefaultTagsToRemove =>
           \A i \in 1..Len(dom) :
               InsideAny(dom, i, {"header", "nav", "aside"}) => ~Contributes(i)

\* C8 amended: the configured subtrees are gone before the traversal and
\* nothing inside one contributes text; under the default configuration
\* these are the header, footer and aside subtrees.
C8_RemovedSubtreesSilent ==
    /\ NoneLeft(Range(tags_to_remove))
    /\ \A i \in 1..Len(dom) :
           InsideAny(dom, i, Range(tags_to_remove)) => ~Contributes(i)
    /\ tags_to_remove = DefaultTagsToRemove =>
           \A i \in 1..Len(dom) :
               InsideAny(dom, i, {"header", "footer", "aside"}) =>
                   ~Contributes(i)

\* A heading with text inside a header: the document stays empty.
C8_Witness ==
    /\ md_pc = "done"
    /\ tags_to_remove = DefaultTagsToRemove
    /\ Len(dom) = 3
    /\ dom[1].name = "header"
    /\ dom[2].name = "h1" /\ dom[2].depth = 1
    /\ dom[3].kind = "text" /\ dom[3].depth = 2
    /\ md_soup = <<>>
    /\ markdown_content = <<>>

====
